---- MODULE Spec2Model ----
(***************************************************************************)
(* Verification model of the VRP optimizer backend:                        *)
(*   - rl/vrp_environment.py        (route construction environment)       *)
(*   - services/optimization_service.py (strategies and result shape)      *)
(*   - services/training_service.py (training loop and stop flag)          *)
(*   - api/routes/training.py       (training start/stop/status routes)    *)
(*                                                                         *)
(* Fixed-point units.  Coordinates are tenths of the normalized unit       *)
(* square, distances are hundredths of the unit (integer square root),     *)
(* rewards are thousandths, so -distance*0.1 is -Dist, 0.5*priority is     *)
(* 500*priority, and so on.                                                *)
(***************************************************************************)
EXTENDS Integers, Sequences, FiniteSets, TLC

(* ------------------------------ bounds --------------------------------- *)
MaxCustomers == 3
MaxVehicles == 2
MaxDemand == 2
MaxCapacity == 2
ExtraSteps == 1
MaxEpisodes == 3
MaxStarts == 2
MaxModels == 3

(* ------------------------- program constants --------------------------- *)
DEPOT_TENTHS == 5
PRIORITY_BONUS == 500
LOAD_BONUS == 200
LOAD_THRESHOLD_TENTHS == 7
COMPLETION_BONUS == 10000
UNVISITED_PENALTY == 2000
INVALID_PENALTY == 1000
CAPACITY_PENALTY == 500
STEPS_PER_CUSTOMER == 3

(* ------------------------------ helpers -------------------------------- *)
Range(s) == {s[i] : i \in DOMAIN s}

Max2(a, b) == IF a >= b THEN a ELSE b

RECURSIVE SumSeq(_)
SumSeq(s) == IF s = <<>> THEN 0 ELSE Head(s) + SumSeq(Tail(s))

\* integer square root (floor)
SquareRange == 0..(100 * (10 * 10 + 10 * 10))

IsqrtTable == [m \in SquareRange |-> CHOOSE r \in 0..m : r * r <= m /\ m < (r + 1) * (r + 1)]

Isqrt(n) == IsqrtTable[n]

\* coordinates and priority used for customer i (grid points; two of them are
\* equidistant from the centre so that distance ties occur)
CoordTable == <<[lat |-> 5, lon |-> 1, priority |-> 1],
                [lat |-> 5, lon |-> 9, priority |-> 5],
                [lat |-> 8, lon |-> 5, priority |-> 3],
                [lat |-> 2, lon |-> 5, priority |-> 2]>>

(* --------------------------- instance inputs --------------------------- *)
CustomerData(n) ==
    {[i \in 1..n |-> [lat |-> CoordTable[i].lat, lon |-> CoordTable[i].lon,
                       demand |-> d[i], priority |-> CoordTable[i].priority]] :
        d \in [1..n -> 1..MaxDemand]}

VehicleData(v) == [1..v -> [capacity : 1..MaxCapacity]]

DepotData == [lat |-> 5, lon |-> 5]

\* customer counts for which an environment episode or a solver search is
\* explored (an episode of n customers runs 3n steps of n + 1 actions)
EnvCustomerCounts == 0..2

VARIABLES
    mode,                \* requested method: "episode" | "rl" | "greedy" | "ortools" | "genetic"
    entry,               \* caller of the service: "optimize_routes" | "quick_optimize" | "service"
    method_given,        \* the request names a method (FALSE: the default applies)
    customers_data,      \* input customers (lat, lon, demand, priority)
    vehicles_data,       \* input vehicles (capacity)
    env_ready,           \* reset() has been called on the environment
    depot,               \* [x, y] of the depot inside the environment
    customers,           \* env.customers: x, y, demand, priority, visited
    vehicles,            \* env.vehicles: capacity, current_load, current_x, current_y, route, total_distance
    current_vehicle_idx, \* env.current_vehicle_idx (0-based)
    total_reward,        \* env.total_reward
    steps,               \* env.steps
    last,                \* what the last step() call returned (stepped = FALSE after reset)
    reward_sum,          \* sum of the rewards returned by step() since reset
    use_real_roads,      \* request flag of the optimization call
    model_loaded,        \* OptimizationService.model_loaded (and agent is not None)
    ortools_available,   \* the import of the solver library succeeds
    pc,                  \* position of the optimization call
    greedy,              \* locals of optimize_greedy
    rl_total_reward,     \* total_reward local of optimize_with_rl
    result,              \* the returned result (returned = FALSE until the call returns)
    config_episodes,     \* TrainingService.config.episodes
    t_pc,                \* position of TrainingService.train
    should_stop,         \* TrainingService.should_stop
    is_training,         \* TrainingService.is_training
    episode,             \* loop variable of train() (-1 while unbound)
    next_episode,        \* next value the range iterator of train() yields
    rewards_history,     \* rewards_history local of train()
    best_reward,         \* best_reward local of train() (set = FALSE is -inf)
    epsilon,             \* DQNAgent.epsilon, in thousandths
    ep_total_reward,     \* total_reward local of _run_episode
    callbacks,           \* the calls made to the progress callback, in order
    train_io,            \* counts of final saves, checkpoints and history rows written
    train_ret,           \* what train() returned
    episodes_started,    \* number of _run_episode calls made by train()
    stopped_at,          \* where train() was when stop() set the flag
    training_state,      \* routes/training.py: the module-level status record
    tasks,               \* background tasks added by start_training, in order
    running,             \* the task holding the event loop, 0 when none does
    response,            \* the response to the request answered in the latest step
    event,               \* what the latest step was: a request kind or "task"
    clock,               \* time.time()
    stopped_runs,        \* per task: its episode count when a stop was accepted while it
                         \* was unfinished, -1 if none was
    agents,              \* the DQNAgent objects: 1 saves (TrainingService), 2 loads
                         \* (OptimizationService.load_model)
    artifact,            \* the file written by DQNAgent.save, None before
    memory,              \* a ReplayBuffer, and the number of push calls made on it
    selected,            \* the latest input given to select_action and, per agent,
                         \* what it returned for that input
    rl_models            \* the rows of table rl_models: name, is_active, trained_episodes

envVars == <<env_ready, depot, customers, vehicles, current_vehicle_idx,
             total_reward, steps, last, reward_sum>>

instVars == <<mode, entry, method_given, customers_data, vehicles_data, use_real_roads, model_loaded,
              ortools_available>>

optVars == <<pc, greedy, rl_total_reward, result>>

trainVars == <<config_episodes, t_pc, should_stop, is_training, episode, next_episode,
               rewards_history, best_reward, epsilon, ep_total_reward, callbacks,
               train_io, train_ret, episodes_started, stopped_at>>

routeVars == <<mode, entry, method_given, customers_data, vehicles_data, use_real_roads, model_loaded,
               ortools_available, env_ready, depot, customers, vehicles,
               current_vehicle_idx, total_reward, steps, last, reward_sum,
               pc, greedy, rl_total_reward, result>>

apiVars == <<training_state, tasks, running, response, event, clock, stopped_runs>>

agentVars == <<agents, artifact, memory, selected>>

storeVars == <<rl_models>>

\* no model has been registered
StoreIdle == rl_models = {}

\* no replay buffer is in use
BufferIdle == memory = [capacity |-> 0, buffer |-> <<>>, pushed |-> 0]

\* no agent has been constructed
NoAgents ==
    /\ agents = <<>>
    /\ artifact = <<>>
    /\ selected = <<>>

AgentIdle == NoAgents /\ BufferIdle

num_customers == Len(customers_data)

num_vehicles == Len(vehicles_data)

max_steps == num_customers * STEPS_PER_CUSTOMER

(* ----------------------- VRPEnvironment (pure) ------------------------- *)
_calculate_distance(x1, y1, x2, y2) ==
    Isqrt(100 * ((x2 - x1) * (x2 - x1) + (y2 - y1) * (y2 - y1)))

NoStep == [stepped |-> FALSE, action |-> 0, branch |-> "none", reward |-> 0,
           terminated |-> FALSE, truncated |-> FALSE, info_total_reward |-> 0,
           info_visited |-> 0, info_remaining |-> 0, info_total_distance |-> 0]

NewVehicle(cap, d) ==
    [capacity |-> cap, current_load |-> 0, current_x |-> d.x, current_y |-> d.y,
     route |-> <<>>, total_distance |-> 0]

CountVisited(cs) == Cardinality({i \in DOMAIN cs : cs[i].visited})

CountUnvisited(cs) == Cardinality({i \in DOMAIN cs : ~cs[i].visited})

TotalDistance(vs) == SumSeq([i \in DOMAIN vs |-> vs[i].total_distance])

get_valid_actions_drop_capacity ==
    LET RECURSIVE Scan(_)
        Scan(i) == IF i >= num_customers THEN <<>>
                   ELSE IF ~customers[i + 1].visited
                        THEN <<i>> \o Scan(i + 1)
                        ELSE Scan(i + 1)
    IN  Scan(0) \o <<num_customers>>

get_valid_actions ==
    LET vehicle == vehicles[current_vehicle_idx + 1]
        RECURSIVE Scan(_)
        Scan(i) == IF i >= num_customers THEN <<>>
                   ELSE IF ~customers[i + 1].visited
                           /\ vehicle.current_load + customers[i + 1].demand <= vehicle.capacity
                        THEN <<i>> \o Scan(i + 1)
                        ELSE Scan(i + 1)
    IN  Scan(0) \o <<num_customers>>

get_action_mask ==
    [a \in 0..num_customers |-> IF a \in Range(get_valid_actions) THEN 1 ELSE 0]

(* ------------------ VRPEnvironmentWithRealData (pure) ------------------ *)
\* _normalize_coordinates / reset: (v - min) / max(max - min, 0.001), in tenths
Normalize(v, lo, hi) == (10 * (v - lo)) \div Max2(hi - lo, 1)

AllLats(cd) == {cd[i].lat : i \in DOMAIN cd} \cup {DepotData.lat}

AllLons(cd) == {cd[i].lon : i \in DOMAIN cd} \cup {DepotData.lon}

SetMin(S) == CHOOSE m \in S : \A o \in S : m <= o

SetMax(S) == CHOOSE m \in S : \A o \in S : m >= o

RealDepot(cd) ==
    [x |-> Normalize(DepotData.lon, SetMin(AllLons(cd)), SetMax(AllLons(cd))),
     y |-> Normalize(DepotData.lat, SetMin(AllLats(cd)), SetMax(AllLats(cd)))]

RealCustomers(cd) ==
    [i \in DOMAIN cd |->
        [x |-> Normalize(cd[i].lon, SetMin(AllLons(cd)), SetMax(AllLons(cd))),
         y |-> Normalize(cd[i].lat, SetMin(AllLats(cd)), SetMax(AllLats(cd))),
         demand |-> cd[i].demand, priority |-> cd[i].priority, visited |-> FALSE]]

\* VRPEnvironment.reset draws customers at random in [0.1, 0.9]^2: the
\* drawn values are the instance's grid points read as tenths
RandomCustomers(cd) ==
    [i \in DOMAIN cd |->
        [x |-> cd[i].lon, y |-> cd[i].lat,
         demand |-> cd[i].demand, priority |-> cd[i].priority, visited |-> FALSE]]

BaseDepot == [x |-> DEPOT_TENTHS, y |-> DEPOT_TENTHS]

(* ------------------------ VRPEnvironment.step -------------------------- *)
AtDepot(v, d) == v.current_x = d.x /\ v.current_y = d.y

ReturnDistance(v, d) == _calculate_distance(v.current_x, v.current_y, d.x, d.y)

ReturnToDepot_keep_load(v, d) ==
    [v EXCEPT !.total_distance = @ + ReturnDistance(v, d),
              !.current_x = d.x, !.current_y = d.y]

\* lines 196-199 and 220-223: the vehicle goes back to the depot
ReturnToDepot(v, d) ==
    [v EXCEPT !.total_distance = @ + ReturnDistance(v, d),
              !.current_x = d.x, !.current_y = d.y, !.current_load = 0]

ExceedsCapacity_never(v, c) == FALSE

\* line 213
ExceedsCapacity(v, c) == v.current_load + c.demand > v.capacity

VisitCustomer_keep_load(v, c, cid) ==
    [v EXCEPT !.total_distance = @ + _calculate_distance(v.current_x, v.current_y, c.x, c.y),
              !.current_x = c.x, !.current_y = c.y,
              !.route = Append(@, cid)]

\* lines 227-236: the vehicle moves to the customer
VisitCustomer(v, c, cid) ==
    [v EXCEPT !.total_distance = @ + _calculate_distance(v.current_x, v.current_y, c.x, c.y),
              !.current_x = c.x, !.current_y = c.y,
              !.current_load = @ + c.demand,
              !.route = Append(@, cid)]

MarkVisited_noop(cs, i) == cs

\* line 237
MarkVisited(cs, i) == [cs EXCEPT ![i].visited = TRUE]

\* lines 240-246
VisitReward(v, c, v1) ==
    (0 - _calculate_distance(v.current_x, v.current_y, c.x, c.y))
    + PRIORITY_BONUS * c.priority
    + (IF 10 * v1.current_load > LOAD_THRESHOLD_TENTHS * v1.capacity THEN LOAD_BONUS ELSE 0)

NextVehicle_stay(idx) == idx

\* line 204: the next vehicle, round-robin
NextVehicle(idx) == (idx + 1) % num_vehicles

\* line 191 / 207 / 211 / 213: which branch of step() the action takes
StepBranch(action) ==
    IF action = num_customers THEN "depot"
    ELSE IF 0 <= action /\ action < num_customers
         THEN IF customers[action + 1].visited THEN "visited"
              ELSE IF ExceedsCapacity(vehicles[current_vehicle_idx + 1], customers[action + 1])
                   THEN "overflow"
                   ELSE "visit"
         ELSE "range"

\* lines 256-263: distance charged to every vehicle away from the depot
\* (the vehicle's position is left as it is)
ClosingVehicles(vs, d) ==
    [i \in DOMAIN vs |->
        IF ~AtDepot(vs[i], d)
        THEN [vs[i] EXCEPT !.total_distance = @ + ReturnDistance(vs[i], d)]
        ELSE vs[i]]

ClosingPenalty(vs, d) ==
    SumSeq([i \in DOMAIN vs |-> IF ~AtDepot(vs[i], d) THEN ReturnDistance(vs[i], d) ELSE 0])

IsTruncated_strict(n) == n > max_steps

\* line 270
IsTruncated(n) == n >= max_steps

AccumulateLate(total, early, final) == total + final

\* line 250: the running total takes the reward as it is at that line
Accumulate(total, early, final) == total + early

\* step(action) as a function of the current environment state
StepResult(action) ==
    LET vi == current_vehicle_idx + 1
        vehicle == vehicles[vi]
        branch == StepBranch(action)
        customer == customers[action + 1]
        v1 == CASE branch = "depot" -> ReturnToDepot(vehicle, depot)
                [] branch = "overflow" -> ReturnToDepot(vehicle, depot)
                [] branch = "visit" -> VisitCustomer(vehicle, customer, action)
                [] OTHER -> vehicle
        reward1 == CASE branch = "depot" -> 0 - ReturnDistance(vehicle, depot)
                     [] branch = "overflow" ->
                            (0 - CAPACITY_PENALTY) - ReturnDistance(vehicle, depot)
                     [] branch = "visit" -> VisitReward(vehicle, customer, v1)
                     [] OTHER -> 0 - INVALID_PENALTY
        vehicles1 == [vehicles EXCEPT ![vi] = v1]
        customers1 == IF branch = "visit" THEN MarkVisited(customers, action + 1)
                      ELSE customers
        idx1 == IF branch = "depot" THEN NextVehicle(current_vehicle_idx)
                ELSE current_vehicle_idx
        all_visited == \A i \in DOMAIN customers1 : customers1[i].visited
        vehicles2 == IF all_visited THEN ClosingVehicles(vehicles1, depot) ELSE vehicles1
        reward2 == IF all_visited
                   THEN reward1 - ClosingPenalty(vehicles1, depot) + COMPLETION_BONUS
                   ELSE reward1
        truncated == IsTruncated(steps + 1)
        reward3 == IF truncated
                   THEN reward2 - CountUnvisited(customers1) * UNVISITED_PENALTY
                   ELSE reward2
        total1 == Accumulate(total_reward, reward1, reward3)
    IN  [vehicles |-> vehicles2, customers |-> customers1, idx |-> idx1,
         total_reward |-> total1,
         ret |-> [stepped |-> TRUE, action |-> action, branch |-> branch,
                  reward |-> reward3, terminated |-> all_visited,
                  truncated |-> truncated, info_total_reward |-> total1,
                  info_visited |-> CountVisited(customers1),
                  info_remaining |-> CountUnvisited(customers1),
                  info_total_distance |-> TotalDistance(vehicles2)]]

\* the assignments of step(), lines 183-279
DoStep(action) ==
    \E r \in {StepResult(action)} :
        /\ steps' = steps + 1
        /\ vehicles' = r.vehicles
        /\ customers' = r.customers
        /\ current_vehicle_idx' = r.idx
        /\ total_reward' = r.total_reward
        /\ last' = r.ret
        /\ reward_sum' = reward_sum + r.ret.reward
        /\ UNCHANGED <<env_ready, depot>>

\* the assignments of reset(), lines 130-166 (base) and 456-485 (real data)
DoReset(cs, d, vd) ==
    /\ env_ready' = TRUE
    /\ depot' = d
    /\ customers' = cs
    /\ vehicles' = [i \in DOMAIN vd |-> NewVehicle(vd[i].capacity, d)]
    /\ current_vehicle_idx' = 0
    /\ total_reward' = 0
    /\ steps' = 0
    /\ last' = NoStep
    /\ reward_sum' = 0

done == last.stepped /\ (last.terminated \/ last.truncated)

(* ---------------------- OptimizationService (pure) --------------------- *)
\* great-circle distance, in hundredths of a kilometre of the grid
_haversine_distance(lat1, lon1, lat2, lon2) ==
    Isqrt(100 * ((lat2 - lat1) * (lat2 - lat1) + (lon2 - lon1) * (lon2 - lon1)))

RoadExtraSet == {0, 7}

NoResult == [returned |-> FALSE, success |-> FALSE, routes |-> <<>>,
             total_distance_km |-> 0, customers_served |-> 0,
             customers_unserved |-> 0, method |-> "none"]

RECURSIVE SeqRemove(_, _)
\* list.remove(x): removes the first occurrence
SeqRemove(s, x) ==
    IF s = <<>> THEN <<>>
    ELSE IF Head(s) = x THEN Tail(s)
    ELSE <<Head(s)>> \o SeqRemove(Tail(s), x)

GreedyVehicleStart(vi, unassigned, routes) ==
    [vi |-> vi, unassigned |-> unassigned, routes |-> routes,
     route_points |-> <<>>, current_lat |-> DepotData.lat,
     current_lon |-> DepotData.lon, current_load |-> 0, total_distance |-> 0,
     roads |-> FALSE]

\* line 174: unassigned = list(range(len(customers)))
GreedyStart(roads) ==
    [GreedyVehicleStart(1, [i \in 1..num_customers |-> i - 1], <<>>)
        EXCEPT !.roads = roads]

IdleGreedy == GreedyVehicleStart(0, <<>>, <<>>)

Fits_any(g, idx) == TRUE

\* line 191
Fits(g, idx) ==
    g.current_load + customers_data[idx + 1].demand <= vehicles_data[g.vi].capacity

GreedyDist(g, idx) ==
    _haversine_distance(g.current_lat, g.current_lon,
                        customers_data[idx + 1].lat, customers_data[idx + 1].lon)

BestIdx_last_tie(g) ==
    LET RECURSIVE Scan(_, _, _)
        Scan(k, best_idx, best_dist) ==
            IF k > Len(g.unassigned) THEN best_idx
            ELSE LET idx == g.unassigned[k]
                 IN  IF Fits(g, idx) /\ (best_idx = -1 \/ GreedyDist(g, idx) <= best_dist)
                     THEN Scan(k + 1, idx, GreedyDist(g, idx))
                     ELSE Scan(k + 1, best_idx, best_dist)
    IN  Scan(1, -1, 0)

\* lines 186-198: first feasible customer of minimum distance, in list order
BestIdx(g) ==
    LET RECURSIVE Scan(_, _, _)
        Scan(k, best_idx, best_dist) ==
            IF k > Len(g.unassigned) THEN best_idx
            ELSE LET idx == g.unassigned[k]
                 IN  IF Fits(g, idx) /\ (best_idx = -1 \/ GreedyDist(g, idx) < best_dist)
                     THEN Scan(k + 1, idx, GreedyDist(g, idx))
                     ELSE Scan(k + 1, best_idx, best_dist)
    IN  Scan(1, -1, 0)

\* lines 204-216
GreedyAssign(g, idx) ==
    [g EXCEPT !.route_points = Append(@, [customer_id |-> idx,
                                          demand |-> customers_data[idx + 1].demand]),
              !.total_distance = @ + GreedyDist(g, idx),
              !.current_lat = customers_data[idx + 1].lat,
              !.current_lon = customers_data[idx + 1].lon,
              !.current_load = @ + customers_data[idx + 1].demand,
              !.unassigned = SeqRemove(@, idx)]

\* lines 219-244: the route record appended for a vehicle that has stops;
\* by_road tells which branch built it (road distance, time and geometry of
\* lines 226-235, or the straight-line ones of lines 236-244)
GreedyRoute(g, extra) ==
    LET back == _haversine_distance(g.current_lat, g.current_lon,
                                    DepotData.lat, DepotData.lon)
    IN  [vehicle_id |-> g.vi, points |-> g.route_points,
         total_distance_km |-> g.total_distance + back + (IF g.roads THEN extra ELSE 0),
         total_demand |-> g.current_load,
         by_road |-> g.roads]

RouteDistances(routes) == SumSeq([i \in DOMAIN routes |-> routes[i].total_distance_km])

RouteStops(routes) == SumSeq([i \in DOMAIN routes |-> Len(routes[i].points)])

GreedyResult_count_routes(g) ==
    [returned |-> TRUE, success |-> TRUE, routes |-> g.routes,
     total_distance_km |-> RouteDistances(g.routes),
     customers_served |-> Len(g.routes),
     customers_unserved |-> Len(g.unassigned), method |-> "greedy"]

\* lines 246-257
GreedyResult(g) ==
    [returned |-> TRUE, success |-> TRUE, routes |-> g.routes,
     total_distance_km |-> RouteDistances(g.routes),
     customers_served |-> RouteStops(g.routes),
     customers_unserved |-> Len(g.unassigned), method |-> "greedy"]

\* _build_routes_from_env, lines 405-431
_build_routes_from_env ==
    LET RECURSIVE Build(_)
        Build(i) ==
            IF i > Len(vehicles) THEN <<>>
            ELSE IF vehicles[i].route = <<>> THEN Build(i + 1)
            ELSE <<[vehicle_id |-> i,
                    points |-> [k \in DOMAIN vehicles[i].route |->
                                   [customer_id |-> vehicles[i].route[k],
                                    demand |-> customers_data[vehicles[i].route[k] + 1].demand]],
                    total_distance_km |-> vehicles[i].total_distance,
                    total_demand |-> vehicles[i].current_load]>> \o Build(i + 1)
    IN  Build(1)

\* lines 148-159
RLResult ==
    [returned |-> TRUE, success |-> TRUE, routes |-> _build_routes_from_env,
     total_distance_km |-> last.info_total_distance,
     customers_served |-> last.info_visited,
     customers_unserved |-> last.info_remaining, method |-> "rl"]

\* the solver's contract: every customer on exactly one vehicle, in some
\* order, the capacity dimension respected (lines 292-317)
Perms(S) ==
    {p \in [1..Cardinality(S) -> S] : \A i, j \in DOMAIN p : i # j => p[i] # p[j]}

RECURSIVE SelectIdx(_, _, _)
SelectIdx(order, assign, v) ==
    IF order = <<>> THEN <<>>
    ELSE IF assign[Head(order)] = v
         THEN <<Head(order)>> \o SelectIdx(Tail(order), assign, v)
         ELSE SelectIdx(Tail(order), assign, v)

SolverRoute(order, assign, v) ==
    [k \in DOMAIN SelectIdx(order, assign, v) |->
        [customer_id |-> SelectIdx(order, assign, v)[k] - 1,
         demand |-> customers_data[SelectIdx(order, assign, v)[k]].demand]]

\* lines 358-359: arc costs from the depot through the stops and back
PathDistance(points) ==
    LET lat(k) == IF k = 0 \/ k > Len(points) THEN DepotData.lat
                  ELSE customers_data[points[k].customer_id + 1].lat
        lon(k) == IF k = 0 \/ k > Len(points) THEN DepotData.lon
                  ELSE customers_data[points[k].customer_id + 1].lon
    IN  SumSeq([k \in 1..(Len(points) + 1) |->
                   _haversine_distance(lat(k - 1), lon(k - 1), lat(k), lon(k))])

PointsDemand(points) == SumSeq([k \in DOMAIN points |-> points[k].demand])

SolverFeasible(order, assign) ==
    \A v \in 1..num_vehicles :
        PointsDemand(SolverRoute(order, assign, v)) <= vehicles_data[v].capacity

\* lines 340-384: one route per vehicle that has stops
OrtoolsRoutes(order, assign) ==
    LET RECURSIVE Build(_)
        Build(v) ==
            IF v > num_vehicles THEN <<>>
            ELSE IF SolverRoute(order, assign, v) = <<>> THEN Build(v + 1)
            ELSE <<[vehicle_id |-> v, points |-> SolverRoute(order, assign, v),
                    total_distance_km |-> PathDistance(SolverRoute(order, assign, v)),
                    total_demand |-> PointsDemand(SolverRoute(order, assign, v))]>>
                 \o Build(v + 1)
    IN  Build(1)

\* lines 386-396
OrtoolsResult(routes) ==
    [returned |-> TRUE, success |-> TRUE, routes |-> routes,
     total_distance_km |-> RouteDistances(routes),
     customers_served |-> RouteStops(routes),
     customers_unserved |-> num_customers - RouteStops(routes), method |-> "ortools"]

(* ------------------------- DQNAgent.select_action ---------------------- *)
SelectAction_unmasked == 0..num_customers

\* lines 282-293: a random valid action, or the arg-max over the scores
\* with the invalid actions at -inf; the scores are arbitrary
SelectAction == {a \in 0..num_customers : get_action_mask[a] = 1}

(* ------------------ routing: environment and strategies ---------------- *)
PolicyMissing_never(loaded) == FALSE

\* optimize_with_rl, line 129
PolicyMissing(loaded) == ~loaded

Modes == {"episode", "rl", "greedy", "ortools", "genetic"}

EnvIdle ==
    /\ env_ready = FALSE
    /\ depot = BaseDepot
    /\ customers = <<>>
    /\ vehicles = <<>>
    /\ current_vehicle_idx = 0
    /\ total_reward = 0
    /\ steps = 0
    /\ last = NoStep
    /\ reward_sum = 0

OptIdle ==
    /\ pc = "start"
    /\ greedy = IdleGreedy
    /\ rl_total_reward = 0
    /\ result = NoResult

SameCapacity(vd) == \A i, j \in DOMAIN vd : vd[i].capacity = vd[j].capacity

\* callers of OptimizationService: the two routes, and a direct call of a
\* method of the service (the "episode" mode drives the environment alone)
Entries == {"optimize_routes", "quick_optimize", "service"}

\* optimize_routes: OptimizationRequest requires at least one customer id and
\* one vehicle id, every customer id must resolve, and at least one vehicle
\* must be available; quick_optimize and the service check nothing
Accepted_always(e, n, v) == TRUE

Accepted(e, n, v) == e = "optimize_routes" => (n >= 1 /\ v >= 1)

\* the method of the service that the caller dispatches to
Strategy ==
    IF entry = "quick_optimize"
    THEN IF mode = "rl" THEN "rl" ELSE "greedy"
    ELSE IF mode \in {"rl", "ortools", "episode"} THEN mode ELSE "greedy"

\* the method of a request that names none: OptimizationRequest.method
\* (schemas.py line 161) and the method parameter of quick_optimize (line 235)
DefaultMethod(e) == IF e = "optimize_routes" THEN "rl" ELSE "greedy"

\* OptimizationResponse.method_used, line 162
method_used == mode

RouteInit ==
    /\ mode \in Modes
    /\ entry \in Entries
    /\ method_given \in BOOLEAN
    /\ ~method_given => (entry # "service" /\ mode = DefaultMethod(entry))
    /\ mode = "episode" => entry = "service"
    /\ \E n \in 0..MaxCustomers, v \in 0..MaxVehicles :
        /\ customers_data \in CustomerData(n)
        /\ vehicles_data \in VehicleData(v)
    /\ use_real_roads \in BOOLEAN
    /\ model_loaded \in BOOLEAN
    /\ ortools_available \in BOOLEAN
    /\ mode = "episode" =>
        /\ num_customers >= 1 /\ num_vehicles >= 1 /\ SameCapacity(vehicles_data)
        /\ ~use_real_roads /\ ~model_loaded /\ ~ortools_available
    /\ (mode = "episode" \/ model_loaded \/ ortools_available) =>
        num_customers \in EnvCustomerCounts
    /\ mode # "rl" => ~model_loaded
    /\ mode # "ortools" => ~ortools_available
    /\ entry # "service" => ~model_loaded
    /\ entry = "quick_optimize" =>
        ~use_real_roads /\ ~ortools_available /\ SameCapacity(vehicles_data)
    /\ EnvIdle
    /\ OptIdle

\* VRPEnvironment.reset: new random customers for the same configuration
EnvReset ==
    /\ mode = "episode"
    /\ ~env_ready \/ done
    /\ \E cd \in CustomerData(num_customers) :
        /\ customers_data' = cd
        /\ DoReset(RandomCustomers(cd), BaseDepot, vehicles_data)
    /\ UNCHANGED <<mode, entry, method_given, vehicles_data, use_real_roads, model_loaded, ortools_available>>
    /\ UNCHANGED optVars
    /\ UNCHANGED <<trainVars, apiVars, agentVars, storeVars>>

\* VRPEnvironment.step with an arbitrary action
EnvStep ==
    /\ mode = "episode"
    /\ env_ready
    /\ steps < max_steps + ExtraSteps
    /\ \E action \in (0 - 1)..(num_customers + 1) : DoStep(action)
    /\ UNCHANGED instVars
    /\ UNCHANGED optVars
    /\ UNCHANGED <<trainVars, apiVars, agentVars, storeVars>>

\* optimize_with_rl, lines 129-131
RLFallback ==
    /\ Strategy = "rl" /\ Accepted(entry, num_customers, num_vehicles) /\ pc = "start"
    /\ PolicyMissing(model_loaded)
    /\ greedy' = GreedyStart(use_real_roads)
    /\ pc' = "greedy"
    /\ UNCHANGED <<rl_total_reward, result>>
    /\ UNCHANGED instVars
    /\ UNCHANGED envVars
    /\ UNCHANGED <<trainVars, apiVars, agentVars, storeVars>>

\* optimize_with_rl, line 134
RLReset ==
    /\ Strategy = "rl" /\ Accepted(entry, num_customers, num_vehicles) /\ pc = "start"
    /\ ~PolicyMissing(model_loaded)
    /\ num_customers >= 1 /\ num_vehicles >= 1
    /\ DoReset(RealCustomers(customers_data), RealDepot(customers_data), vehicles_data)
    /\ pc' = "rollout"
    /\ rl_total_reward' = 0
    /\ UNCHANGED <<greedy, result>>
    /\ UNCHANGED instVars
    /\ UNCHANGED <<trainVars, apiVars, agentVars, storeVars>>

\* line 134 with no vehicle (IndexError) or no customer (ZeroDivisionError)
\* in _get_observation
RLResetError ==
    /\ Strategy = "rl" /\ Accepted(entry, num_customers, num_vehicles) /\ pc = "start"
    /\ ~PolicyMissing(model_loaded)
    /\ num_customers = 0 \/ num_vehicles = 0
    /\ pc' = "error"
    /\ UNCHANGED <<greedy, rl_total_reward, result>>
    /\ UNCHANGED instVars
    /\ UNCHANGED envVars
    /\ UNCHANGED <<trainVars, apiVars, agentVars, storeVars>>

\* optimize_with_rl, lines 138-143: one iteration of the rollout loop
RLStep ==
    /\ mode = "rl" /\ pc = "rollout"
    /\ ~done
    /\ \E action \in SelectAction :
        /\ DoStep(action)
        /\ rl_total_reward' = rl_total_reward + StepResult(action).ret.reward
    /\ UNCHANGED <<pc, greedy, result>>
    /\ UNCHANGED instVars
    /\ UNCHANGED <<trainVars, apiVars, agentVars, storeVars>>

\* optimize_with_rl, lines 146-159
RLReturn ==
    /\ mode = "rl" /\ pc = "rollout"
    /\ done
    /\ result' = RLResult
    /\ pc' = "returned"
    /\ UNCHANGED <<greedy, rl_total_reward>>
    /\ UNCHANGED instVars
    /\ UNCHANGED envVars
    /\ UNCHANGED <<trainVars, apiVars, agentVars, storeVars>>

\* optimize_routes, lines 134-138 and 144-148
GreedyDispatch ==
    /\ Strategy = "greedy" /\ Accepted(entry, num_customers, num_vehicles) /\ pc = "start"
    /\ greedy' = GreedyStart(use_real_roads)
    /\ pc' = "greedy"
    /\ UNCHANGED <<rl_total_reward, result>>
    /\ UNCHANGED instVars
    /\ UNCHANGED envVars
    /\ UNCHANGED <<trainVars, apiVars, agentVars, storeVars>>

\* optimize_greedy, lines 184-216: one iteration that assigns a customer
GreedyPick ==
    /\ pc = "greedy"
    /\ greedy.vi <= num_vehicles
    /\ greedy.unassigned # <<>>
    /\ BestIdx(greedy) # -1
    /\ greedy' = GreedyAssign(greedy, BestIdx(greedy))
    /\ UNCHANGED <<pc, rl_total_reward, result>>
    /\ UNCHANGED instVars
    /\ UNCHANGED envVars
    /\ UNCHANGED <<trainVars, apiVars, agentVars, storeVars>>

\* optimize_greedy, lines 200-201 and 219-244: the vehicle's loop ends
GreedyClose ==
    /\ pc = "greedy"
    /\ greedy.vi <= num_vehicles
    /\ greedy.unassigned = <<>> \/ BestIdx(greedy) = -1
    /\ \E extra \in (IF greedy.roads /\ greedy.route_points # <<>> THEN RoadExtraSet ELSE {0}) :
        greedy' = [GreedyVehicleStart(greedy.vi + 1, greedy.unassigned,
                        IF greedy.route_points # <<>>
                        THEN Append(greedy.routes, GreedyRoute(greedy, extra))
                        ELSE greedy.routes)
                   EXCEPT !.roads = greedy.roads]
    /\ UNCHANGED <<pc, rl_total_reward, result>>
    /\ UNCHANGED instVars
    /\ UNCHANGED envVars
    /\ UNCHANGED <<trainVars, apiVars, agentVars, storeVars>>

\* optimize_greedy, lines 246-257
GreedyReturn ==
    /\ pc = "greedy"
    /\ greedy.vi > num_vehicles
    /\ result' = GreedyResult(greedy)
    /\ pc' = "returned"
    /\ UNCHANGED <<greedy, rl_total_reward>>
    /\ UNCHANGED instVars
    /\ UNCHANGED envVars
    /\ UNCHANGED <<trainVars, apiVars, agentVars, storeVars>>

\* optimize_with_ortools, lines 271-276
OrtoolsUnavailable ==
    /\ Strategy = "ortools" /\ Accepted(entry, num_customers, num_vehicles) /\ pc = "start"
    /\ ~ortools_available
    /\ greedy' = GreedyStart(use_real_roads)
    /\ pc' = "greedy"
    /\ UNCHANGED <<rl_total_reward, result>>
    /\ UNCHANGED instVars
    /\ UNCHANGED envVars
    /\ UNCHANGED <<trainVars, apiVars, agentVars, storeVars>>

\* optimize_with_ortools, lines 330-334 (the flag is not passed on)
OrtoolsNoSolution ==
    /\ Strategy = "ortools" /\ Accepted(entry, num_customers, num_vehicles) /\ pc = "start"
    /\ ortools_available
    /\ greedy' = GreedyStart(FALSE)
    /\ pc' = "greedy"
    /\ UNCHANGED <<rl_total_reward, result>>
    /\ UNCHANGED instVars
    /\ UNCHANGED envVars
    /\ UNCHANGED <<trainVars, apiVars, agentVars, storeVars>>

\* optimize_with_ortools, lines 336-396
OrtoolsSolve ==
    /\ Strategy = "ortools" /\ Accepted(entry, num_customers, num_vehicles) /\ pc = "start"
    /\ ortools_available
    /\ num_vehicles >= 1
    /\ \E order \in Perms(1..num_customers), assign \in [1..num_customers -> 1..num_vehicles] :
        /\ SolverFeasible(order, assign)
        /\ result' = OrtoolsResult(OrtoolsRoutes(order, assign))
    /\ pc' = "returned"
    /\ UNCHANGED <<greedy, rl_total_reward>>
    /\ UNCHANGED instVars
    /\ UNCHANGED envVars
    /\ UNCHANGED <<trainVars, apiVars, agentVars, storeVars>>

\* optimize_routes: the request is refused before any method of the service
\* is called: 422 from the schema (an empty id list), 400 when no vehicle of
\* the request is available
RequestRejected ==
    /\ entry = "optimize_routes" /\ pc = "start"
    /\ ~Accepted(entry, num_customers, num_vehicles)
    /\ pc' \in IF num_customers = 0 THEN {"rejected_422"}
                ELSE {"rejected_422", "rejected_400"}
    /\ UNCHANGED <<greedy, rl_total_reward, result>>
    /\ UNCHANGED instVars
    /\ UNCHANGED envVars
    /\ UNCHANGED <<trainVars, apiVars, agentVars, storeVars>>

RouteNext ==
    \/ EnvReset \/ EnvStep
    \/ RequestRejected
    \/ RLFallback \/ RLReset \/ RLResetError \/ RLStep \/ RLReturn
    \/ GreedyDispatch \/ GreedyPick \/ GreedyClose \/ GreedyReturn
    \/ OrtoolsUnavailable \/ OrtoolsNoSolution \/ OrtoolsSolve


(* -------------------------- TrainingService ---------------------------- *)
EPSILON_START == 1000
EPSILON_END == 10
EPSILON_DECAY == 995
HISTORY_EVERY == 10
CHECKPOINT_EVERY == 500
AVG_WINDOW == 100

\* customer and vehicle counts of the training environment explored
TrainCustomerCounts == {1}

TrainVehicleCounts == {1}

NoTrainRet == [returned |-> FALSE, episodes_trained |-> 0,
               final_avg_reward |-> [nan |-> TRUE, val |-> 0],
               best_reward |-> [set |-> FALSE, val |-> 0]]

NotStopped == [t_pc |-> "none", episode |-> -1]

LastN(s, n) == IF Len(s) <= n THEN s ELSE SubSeq(s, Len(s) - n + 1, Len(s))

\* np.mean(rewards_history[-100:]); nan for an empty history
MeanLast(s) ==
    IF s = <<>> THEN [nan |-> TRUE, val |-> 0]
    ELSE [nan |-> FALSE, val |-> SumSeq(LastN(s, AVG_WINDOW)) \div Len(LastN(s, AVG_WINDOW))]

\* DQNAgent.decay_epsilon
DecayEpsilon(e) == Max2(EPSILON_END, (e * EPSILON_DECAY) \div 1000)

CallbackArgs_zero_based(ep, reward, eps, avg) ==
    [episode |-> ep, reward |-> reward, epsilon |-> eps, avg_reward |-> avg]

\* train(), lines 106-112: the arguments of the progress callback
CallbackArgs(ep, reward, eps, avg) ==
    [episode |-> ep + 1, reward |-> reward, epsilon |-> eps, avg_reward |-> avg]

ShouldBreak_never(flag) == FALSE

\* line 90
ShouldBreak(flag) == flag

TrainIdle ==
    /\ config_episodes = 1
    /\ t_pc = "idle"
    /\ should_stop = FALSE
    /\ is_training = FALSE
    /\ episode = -1
    /\ next_episode = 0
    /\ rewards_history = <<>>
    /\ best_reward = [set |-> FALSE, val |-> 0]
    /\ epsilon = EPSILON_START
    /\ ep_total_reward = 0
    /\ callbacks = <<>>
    /\ train_io = [final_saves |-> 0, checkpoints |-> 0, history_rows |-> 0]
    /\ train_ret = NoTrainRet
    /\ episodes_started = 0
    /\ stopped_at = NotStopped

TrainInit ==
    /\ mode = "train"
    /\ entry = "service"
    /\ method_given = TRUE
    /\ \E n \in TrainCustomerCounts, v \in TrainVehicleCounts :
        /\ customers_data \in CustomerData(n)
        /\ vehicles_data \in VehicleData(v)
    /\ SameCapacity(vehicles_data)
    /\ use_real_roads = FALSE /\ model_loaded = FALSE /\ ortools_available = FALSE
    /\ EnvIdle
    /\ OptIdle
    /\ config_episodes \in 1..MaxEpisodes
    /\ t_pc = "idle"
    /\ should_stop = FALSE
    /\ is_training = FALSE
    /\ episode = -1
    /\ next_episode = 0
    /\ rewards_history = <<>>
    /\ best_reward = [set |-> FALSE, val |-> 0]
    /\ epsilon = EPSILON_START
    /\ ep_total_reward = 0
    /\ callbacks = <<>>
    /\ train_io = [final_saves |-> 0, checkpoints |-> 0, history_rows |-> 0]
    /\ train_ret = NoTrainRet
    /\ episodes_started = 0
    /\ stopped_at = NotStopped

\* train(), lines 54-87
TrainStart ==
    /\ t_pc = "idle"
    /\ is_training' = TRUE
    /\ should_stop' = FALSE
    /\ rewards_history' = <<>>
    /\ best_reward' = [set |-> FALSE, val |-> 0]
    /\ epsilon' = EPSILON_START
    /\ next_episode' = 0
    /\ t_pc' = "loop"
    /\ UNCHANGED <<config_episodes, episode, ep_total_reward, callbacks, train_io,
                   train_ret, episodes_started>>
    /\ stopped_at' = NotStopped
    /\ UNCHANGED <<instVars, envVars, optVars>>
    /\ UNCHANGED <<apiVars, agentVars, storeVars>>

\* train(), lines 89-92: the flag is set at the head of an iteration
TrainLoopBreak ==
    /\ t_pc = "loop"
    /\ next_episode < config_episodes
    /\ ShouldBreak(should_stop)
    /\ episode' = next_episode
    /\ t_pc' = "exit"
    /\ UNCHANGED <<config_episodes, should_stop, is_training, next_episode,
                   rewards_history, best_reward, epsilon, ep_total_reward, callbacks,
                   train_io, train_ret, episodes_started, stopped_at>>
    /\ UNCHANGED <<instVars, envVars, optVars>>
    /\ UNCHANGED <<apiVars, agentVars, storeVars>>

\* train(), line 89: the range is exhausted
TrainLoopEnd ==
    /\ t_pc = "loop"
    /\ next_episode >= config_episodes
    /\ t_pc' = "exit"
    /\ UNCHANGED <<config_episodes, should_stop, is_training, episode, next_episode,
                   rewards_history, best_reward, epsilon, ep_total_reward, callbacks,
                   train_io, train_ret, episodes_started, stopped_at>>
    /\ UNCHANGED <<instVars, envVars, optVars>>
    /\ UNCHANGED <<apiVars, agentVars, storeVars>>

\* train() line 95 and _run_episode lines 174-176: a new episode begins
TrainEpisodeBegin ==
    /\ t_pc = "loop"
    /\ next_episode < config_episodes
    /\ ~ShouldBreak(should_stop)
    /\ episode' = next_episode
    /\ \E cd \in CustomerData(num_customers) :
        /\ customers_data' = cd
        /\ DoReset(RandomCustomers(cd), BaseDepot, vehicles_data)
    /\ ep_total_reward' = 0
    /\ episodes_started' = episodes_started + 1
    /\ t_pc' = "episode"
    /\ UNCHANGED <<mode, entry, method_given, vehicles_data, use_real_roads, model_loaded, ortools_available>>
    /\ UNCHANGED <<config_episodes, should_stop, is_training, next_episode,
                   rewards_history, best_reward, epsilon, callbacks, train_io, train_ret,
                   stopped_at>>
    /\ UNCHANGED optVars
    /\ UNCHANGED <<apiVars, agentVars, storeVars>>

\* _run_episode, lines 178-198: one iteration of the step loop
TrainEpisodeStep ==
    /\ t_pc = "episode"
    /\ ~done
    /\ \E action \in SelectAction :
        /\ DoStep(action)
        /\ ep_total_reward' = ep_total_reward + last'.reward
    /\ UNCHANGED <<config_episodes, t_pc, should_stop, is_training, episode, next_episode,
                   rewards_history, best_reward, epsilon, callbacks, train_io, train_ret,
                   episodes_started, stopped_at>>
    /\ UNCHANGED <<instVars, optVars>>
    /\ UNCHANGED <<apiVars, agentVars, storeVars>>

\* _run_episode lines 200-203 and train() lines 96-146: the episode is over
TrainEpisodeEnd ==
    /\ t_pc = "episode"
    /\ done
    /\ epsilon' = DecayEpsilon(epsilon)
    /\ rewards_history' = Append(rewards_history, ep_total_reward)
    /\ best_reward' = IF ~best_reward.set \/ ep_total_reward > best_reward.val
                      THEN [set |-> TRUE, val |-> ep_total_reward]
                      ELSE best_reward
    /\ callbacks' = Append(callbacks,
                           CallbackArgs(episode, ep_total_reward, epsilon',
                                        MeanLast(rewards_history').val))
    /\ train_io' = [train_io EXCEPT
                      !.history_rows = IF (episode + 1) % HISTORY_EVERY = 0 THEN @ + 1 ELSE @,
                      !.checkpoints = IF (episode + 1) % CHECKPOINT_EVERY = 0 THEN @ + 1 ELSE @]
    /\ next_episode' = episode + 1
    /\ t_pc' = "loop"
    /\ UNCHANGED <<config_episodes, should_stop, is_training, episode, ep_total_reward,
                   train_ret, episodes_started, stopped_at>>
    /\ UNCHANGED <<instVars, envVars, optVars>>
    /\ UNCHANGED <<apiVars, agentVars, storeVars>>

\* train(), lines 148-170: final save and return
TrainExit ==
    /\ t_pc = "exit"
    /\ train_io' = [train_io EXCEPT !.final_saves = @ + 1]
    /\ is_training' = FALSE
    /\ train_ret' = [returned |-> TRUE, episodes_trained |-> episode + 1,
                     final_avg_reward |-> MeanLast(rewards_history),
                     best_reward |-> best_reward]
    /\ t_pc' = "returned"
    /\ UNCHANGED <<config_episodes, should_stop, episode, next_episode, rewards_history,
                   best_reward, epsilon, ep_total_reward, callbacks, episodes_started,
                   stopped_at>>
    /\ UNCHANGED <<instVars, envVars, optVars>>
    /\ UNCHANGED <<apiVars, agentVars, storeVars>>

\* TrainingService.stop, lines 205-207
ServiceStop ==
    /\ ~should_stop
    /\ should_stop' = TRUE
    /\ stopped_at' = [t_pc |-> t_pc, episode |-> episode]
    /\ UNCHANGED <<config_episodes, t_pc, is_training, episode, next_episode,
                   rewards_history, best_reward, epsilon, ep_total_reward, callbacks,
                   train_io, train_ret, episodes_started>>
    /\ UNCHANGED <<instVars, envVars, optVars>>
    /\ UNCHANGED <<apiVars, agentVars, storeVars>>

TrainProgress ==
    \/ TrainStart \/ TrainLoopBreak \/ TrainLoopEnd \/ TrainEpisodeBegin
    \/ TrainEpisodeStep \/ TrainEpisodeEnd \/ TrainExit

TrainNext == TrainProgress \/ ServiceStop

(* --------------------------- training routes --------------------------- *)
\* api/routes/training.py: the module-level training_state, the request
\* handlers and the background task run_training.  Handlers and tasks share
\* one event loop: a task keeps the loop from one await to the next, and a
\* handler runs only while no task holds it.

\* training_state["epsilon"] as the module is loaded (1.0)
STATE_EPSILON == 1000
HTTP_OK == 200
HTTP_BAD_REQUEST == 400
HTTP_CONFLICT == 409

\* config.episodes of the runs explored: one without and one with a
\* history save inside train()
ApiEpisodeCounts == {1, HISTORY_EVERY + 1}

\* episode rewards of the runs explored
RewardSet == {-1000, 2000}

\* np.mean(rewards_history[-100:]) of a history whose rewards are all in
\* seen: the reward itself when only one value occurred, otherwise a value
\* strictly between the lowest and the highest (one such value explored)
MixedMeans == {500}

MeanSet(seen) ==
    IF Cardinality(seen) = 1 THEN seen
    ELSE {m \in MixedMeans : SetMin(seen) < m /\ m < SetMax(seen)}

None == <<>>

Some(x) == <<x>>

InitialTrainingState ==
    [is_training |-> FALSE, current_episode |-> 0, total_episodes |-> 0,
     current_reward |-> None, avg_reward |-> None, epsilon |-> STATE_EPSILON,
     start_time |-> None, best_reward |-> None, error |-> None]

NoResponse == [op |-> "none", status |-> 0, body |-> None]

\* TrainingService(config) handed to background_tasks.add_task
NewTask(n) == [pc |-> "scheduled", episodes |-> n, episode |-> 0, rewards_seen |-> {},
               epsilon |-> EPSILON_START, should_stop |-> FALSE, final_saved |-> FALSE]

\* update_callback
UpdateCallback(ts, n, reward, eps, avg) ==
    [ts EXCEPT !.current_episode = n,
               !.current_reward = Some(reward),
               !.epsilon = eps,
               !.avg_reward = Some(avg),
               !.best_reward = Some(Max2(IF ts.best_reward = None THEN reward
                                         ELSE ts.best_reward[1], reward))]

\* the TrainingStatus built by get_training_status (wall-clock fields left out)
StatusBody(ts) ==
    [is_training |-> ts.is_training, current_episode |-> ts.current_episode,
     total_episodes |-> ts.total_episodes, current_reward |-> ts.current_reward,
     best_reward |-> IF ts.best_reward = None THEN ts.current_reward ELSE ts.best_reward,
     avg_reward_last_100 |-> ts.avg_reward, epsilon |-> ts.epsilon]

StartBlocked_never(ts) == FALSE

\* line 55
StartBlocked(ts) == ts.is_training

ApiIdle ==
    /\ training_state = InitialTrainingState
    /\ tasks = <<>>
    /\ running = 0
    /\ response = NoResponse
    /\ event = "none"
    /\ clock = 1
    /\ stopped_runs = <<>>

RouteIdle ==
    /\ mode = "api"
    /\ entry = "service"
    /\ method_given = TRUE
    /\ customers_data = <<>>
    /\ vehicles_data = <<>>
    /\ use_real_roads = FALSE /\ model_loaded = FALSE /\ ortools_available = FALSE
    /\ EnvIdle
    /\ OptIdle

ApiInit == RouteIdle /\ TrainIdle /\ ApiIdle /\ AgentIdle /\ StoreIdle

\* start_training, lines 61-76
StartAccepted ==
    /\ running = 0
    /\ ~StartBlocked(training_state)
    /\ Len(tasks) < MaxStarts
    /\ \E n \in ApiEpisodeCounts :
        /\ tasks' = Append(tasks, NewTask(n))
        /\ training_state' = [training_state EXCEPT !.is_training = TRUE,
                                                    !.total_episodes = n,
                                                    !.current_episode = 0]
    /\ response' = [op |-> "start", status |-> HTTP_OK, body |-> None]
    /\ event' = "start"
    /\ stopped_runs' = Append(stopped_runs, -1)
    /\ UNCHANGED <<running, clock>>
    /\ UNCHANGED <<routeVars, trainVars, agentVars, storeVars>>

\* start_training, lines 55-59
StartRejected ==
    /\ running = 0
    /\ StartBlocked(training_state)
    /\ response' = [op |-> "start", status |-> HTTP_CONFLICT, body |-> None]
    /\ event' = "start"
    /\ UNCHANGED <<training_state, tasks, running, clock, stopped_runs>>
    /\ UNCHANGED <<routeVars, trainVars, agentVars, storeVars>>

\* stop_training, lines 205-208
StopAccepted ==
    /\ running = 0
    /\ training_state.is_training
    /\ training_state' = [training_state EXCEPT !.is_training = FALSE]
    /\ response' = [op |-> "stop", status |-> HTTP_OK, body |-> None]
    /\ event' = "stop"
    /\ stopped_runs' = [i \in DOMAIN tasks |->
                            IF tasks[i].pc # "done" /\ stopped_runs[i] < 0
                            THEN tasks[i].episode ELSE stopped_runs[i]]
    /\ UNCHANGED <<tasks, running, clock>>
    /\ UNCHANGED <<routeVars, trainVars, agentVars, storeVars>>

\* stop_training, lines 202-203
StopRejected ==
    /\ running = 0
    /\ ~training_state.is_training
    /\ response' = [op |-> "stop", status |-> HTTP_BAD_REQUEST, body |-> None]
    /\ event' = "stop"
    /\ UNCHANGED <<training_state, tasks, running, clock, stopped_runs>>
    /\ UNCHANGED <<routeVars, trainVars, agentVars, storeVars>>

\* get_training_status
Status ==
    /\ running = 0
    /\ response' = [op |-> "status", status |-> HTTP_OK,
                    body |-> Some(StatusBody(training_state))]
    /\ event' = "status"
    /\ UNCHANGED <<training_state, tasks, running, clock, stopped_runs>>
    /\ UNCHANGED <<routeVars, trainVars, agentVars, storeVars>>

\* run_training lines 83-101 and train() lines 54-87: the task takes the loop
TaskBegin ==
    \E i \in DOMAIN tasks :
        /\ running = 0
        /\ tasks[i].pc = "scheduled"
        /\ training_state' = [training_state EXCEPT !.start_time = Some(clock)]
        /\ clock' = clock + 1
        /\ UNCHANGED stopped_runs
        /\ tasks' = [tasks EXCEPT ![i].pc = "loop"]
        /\ running' = i
        /\ event' = "task"
        /\ response' = NoResponse
        /\ UNCHANGED <<routeVars, trainVars, agentVars, storeVars>>

\* train() lines 89-125: one pass of the loop body, up to the history save
TaskEpisode ==
    \E i \in DOMAIN tasks :
        /\ running = i
        /\ tasks[i].pc = "loop"
        /\ tasks[i].episode < tasks[i].episodes
        /\ ~ShouldBreak(tasks[i].should_stop)
        /\ \E reward \in RewardSet :
            LET n == tasks[i].episode + 1
                seen == tasks[i].rewards_seen \cup {reward}
                eps == DecayEpsilon(tasks[i].epsilon)
                suspended == n % HISTORY_EVERY = 0
            IN  /\ \E avg \in MeanSet(seen) :
                    training_state' = UpdateCallback(training_state, n, reward, eps, avg)
                /\ tasks' = [tasks EXCEPT ![i].episode = n,
                                          ![i].rewards_seen = seen,
                                          ![i].epsilon = eps,
                                          ![i].pc = IF suspended THEN "history" ELSE "loop"]
                /\ running' = IF suspended THEN 0 ELSE i
        /\ event' = "task"
        /\ response' = NoResponse
        /\ UNCHANGED <<clock, stopped_runs>>
        /\ UNCHANGED <<routeVars, trainVars, agentVars, storeVars>>

\* _save_training_history returned: the loop goes on
TaskHistoryDone ==
    \E i \in DOMAIN tasks :
        /\ running = 0
        /\ tasks[i].pc = "history"
        /\ tasks' = [tasks EXCEPT ![i].pc = "loop"]
        /\ running' = i
        /\ event' = "task"
        /\ response' = NoResponse
        /\ UNCHANGED <<training_state, clock, stopped_runs>>
        /\ UNCHANGED <<routeVars, trainVars, agentVars, storeVars>>

\* train() lines 148-170 and run_training line 107: final save, train()
\* returns and the task awaits save_training_result
TaskFinish ==
    \E i \in DOMAIN tasks :
        /\ running = i
        /\ tasks[i].pc = "loop"
        /\ tasks[i].episode = tasks[i].episodes \/ ShouldBreak(tasks[i].should_stop)
        /\ tasks' = [tasks EXCEPT ![i].pc = "saving", ![i].final_saved = TRUE]
        /\ running' = 0
        /\ event' = "task"
        /\ response' = NoResponse
        /\ UNCHANGED <<training_state, clock, stopped_runs>>
        /\ UNCHANGED <<routeVars, trainVars, agentVars, storeVars>>

\* run_training lines 115-120: the final save raised
TaskFailed ==
    \E i \in DOMAIN tasks :
        /\ running = i
        /\ tasks[i].pc = "loop"
        /\ tasks[i].episode = tasks[i].episodes \/ ShouldBreak(tasks[i].should_stop)
        /\ tasks' = [tasks EXCEPT ![i].pc = "done"]
        /\ training_state' = [training_state EXCEPT !.is_training = FALSE,
                                                    !.error = Some(i)]
        /\ running' = 0
        /\ event' = "task"
        /\ response' = NoResponse
        /\ UNCHANGED <<clock, stopped_runs>>
        /\ UNCHANGED <<routeVars, trainVars, agentVars, storeVars>>

\* run_training lines 109-120
TaskSaved ==
    \E i \in DOMAIN tasks :
        /\ running = 0
        /\ tasks[i].pc = "saving"
        /\ tasks' = [tasks EXCEPT ![i].pc = "done"]
        /\ training_state' = [training_state EXCEPT !.current_episode = tasks[i].episodes,
                                                    !.is_training = FALSE]
        /\ event' = "task"
        /\ response' = NoResponse
        /\ UNCHANGED <<running, clock, stopped_runs>>
        /\ UNCHANGED <<routeVars, trainVars, agentVars, storeVars>>

ApiNext ==
    \/ StartAccepted \/ StartRejected \/ StopAccepted \/ StopRejected \/ Status
    \/ TaskBegin \/ TaskEpisode \/ TaskHistoryDone \/ TaskFinish \/ TaskFailed \/ TaskSaved

vars == <<routeVars, trainVars, apiVars, agentVars, storeVars>>

\* one optimisation request, or one episode driven from outside
Init == RouteInit /\ TrainIdle /\ ApiIdle /\ AgentIdle /\ StoreIdle

Spec == Init /\ [][RouteNext]_vars

\* one TrainingService whose train() is called once
ServiceInit == TrainInit /\ ApiIdle /\ AgentIdle /\ StoreIdle

\* the coroutine of train() keeps running once called
SpecTrain == ServiceInit /\ [][TrainNext]_vars /\ WF_vars(TrainProgress)

\* requests arrive at any time; a task runs whenever the event loop lets it
SpecApi == ApiInit /\ [][ApiNext]_vars

(* ------------------------------- DQNAgent ------------------------------- *)
\* dimensions of the agents explored: state_dim, action_dim and one hidden
\* layer of the feature extractor
StateDim == 2

ActionDim == 2

HiddenDim == 2

\* largest capacity of the replay buffer explored
MaxMemory == 3

\* number of push calls explored
MaxPushes == 4

\* float('-inf') of the action mask: below every Q value of the model
NEG_INF == -1000000

\* nn.Dropout(0.1) scales the activations it keeps by 1/(1 - 0.1): activations
\* are in ninths, 10 when dropout is active and 9 when it is not
DROPOUT_KEEP == 10

DROPOUT_OFF == 9

DecisionStates == [1..StateDim -> {0, 1}]

Masks == [1..ActionDim -> {0, 1}]

ReLU(x) == IF x > 0 THEN x ELSE 0

Dot(w, x) == SumSeq([i \in DOMAIN w |-> w[i] * x[i]])

\* the dropout masks a forward pass can draw: any subset of the units while
\* the module is in training mode, all units kept in eval mode
DropoutMasks(training) ==
    IF training THEN SUBSET (1..HiddenDim) ELSE {1..HiddenDim}

\* DQNNetwork.forward, lines 76-88 (dueling): Q = V + (A - mean(A)), here
\* multiplied by ActionDim; keep is the set of units the dropout layer keeps
Forward(net, training, x, keep) ==
    LET features == [h \in 1..HiddenDim |->
                        IF h \in keep
                        THEN (IF training THEN DROPOUT_KEEP ELSE DROPOUT_OFF)
                                * ReLU(Dot(net.feature_layer[h], x))
                        ELSE 0]
        value == Dot(net.value_stream, features)
        advantage == [a \in 1..ActionDim |-> Dot(net.advantage_stream[a], features)]
    IN  [a \in 1..ActionDim |->
            ActionDim * value + ActionDim * advantage[a] - SumSeq(advantage)]

\* lines 287-291: masked_fill(mask == 0, -inf)
MaskedFill(q, mask) == [a \in DOMAIN q |-> IF mask[a] = 0 THEN NEG_INF ELSE q[a]]

\* argmax(dim=1).item(): the index of the first maximal value, from 0
ArgMax(q) ==
    (CHOOSE a \in DOMAIN q :
        /\ \A b \in DOMAIN q : q[b] <= q[a]
        /\ \A b \in DOMAIN q : b < a => q[b] < q[a]) - 1

\* lines 276-278: np.where(action_mask == 1)[0]
ValidActions(mask) == {a - 1 : a \in {b \in DOMAIN mask : mask[b] = 1}}

\* the networks explored: a fixed feature layer and value stream, and an
\* advantage stream in which every action has one hidden unit of weight 1,
\* the others of weight -1
Net(adv) ==
    [feature_layer |-> [h \in 1..HiddenDim |-> [i \in 1..StateDim |-> IF h = i THEN 1 ELSE 0]],
     value_stream |-> [h \in 1..HiddenDim |-> 1],
     advantage_stream |-> adv]

NetSet ==
    {Net([a \in 1..ActionDim |-> [h \in 1..HiddenDim |-> IF h = u[a] THEN 1 ELSE -1]]) :
        u \in [1..ActionDim -> 1..HiddenDim]}

FreshNet == Net([a \in 1..ActionDim |-> [h \in 1..HiddenDim |-> IF h = 1 THEN 1 ELSE -1]])

\* DQNAgent.__init__, lines 204-255: policy_net is left in training mode,
\* target_net copies it and is put in eval mode
NewAgent(net, eps) ==
    [policy_net |-> net, policy_training |-> TRUE,
     target_net |-> net, target_training |-> FALSE,
     epsilon |-> eps, episodes_done |-> 0, steps_done |-> 0]

\* the transitions pushed: (action, reward, done, action_mask); a mask that
\* is None is stored as np.ones(1)
TransitionSet ==
    {[action |-> a, reward |-> r, done |-> FALSE, action_mask |-> m] :
        a \in {0}, r \in {-1000, 0, 2000}, m \in {<<1>>}}

DequeAppend_evict_newest(buffer, maxlen, x) ==
    IF maxlen = 0 THEN buffer
    ELSE IF Len(buffer) >= maxlen THEN Append(SubSeq(buffer, 1, Len(buffer) - 1), x)
    ELSE Append(buffer, x)

\* deque(maxlen=capacity).append: a full deque drops its left end
DequeAppend(buffer, maxlen, x) ==
    IF maxlen = 0 THEN buffer
    ELSE IF Len(buffer) >= maxlen THEN Append(Tail(buffer), x)
    ELSE Append(buffer, x)

NoSelection == [input |-> 0, actions |-> [i \in 1..2 |-> <<>>]]

\* the fixed sequence of decision states and masks given to select_action
ProbeSeq ==
    <<[state |-> [i \in 1..StateDim |-> 1], mask |-> [a \in 1..ActionDim |-> 1]],
      [state |-> [i \in 1..StateDim |-> IF i = 1 THEN 1 ELSE 0],
       mask |-> [a \in 1..ActionDim |-> 1]],
      [state |-> [i \in 1..StateDim |-> 1],
       mask |-> [a \in 1..ActionDim |-> IF a = ActionDim THEN 1 ELSE 0]],
      [state |-> [i \in 1..StateDim |-> 1], mask |-> [a \in 1..ActionDim |-> 0]]>>

\* lines 282-293: the actions the exploitation branch can return for a
\* network, one per dropout mask the forward pass can draw
Exploit ==
    [net \in NetSet, training \in BOOLEAN, k \in DOMAIN ProbeSeq |->
        {ArgMax(MaskedFill(Forward(net, training, ProbeSeq[k].state, keep),
                           ProbeSeq[k].mask)) : keep \in DropoutMasks(training)}]

\* a trained agent with its replay buffer, and a new agent of the same
\* configuration
AgentInit ==
    /\ \E net \in NetSet :
        agents = <<[NewAgent(net, EPSILON_END) EXCEPT !.episodes_done = 1,
                                                     !.steps_done = 1],
                   NewAgent(FreshNet, EPSILON_START)>>
    /\ artifact = <<>>
    /\ BufferIdle
    /\ selected = NoSelection

AgentStart == RouteIdle /\ TrainIdle /\ ApiIdle /\ AgentInit /\ StoreIdle

\* DQNAgent.select_action, lines 257-293
AgentSelect ==
    /\ \E i \in DOMAIN agents, k \in DOMAIN ProbeSeq, training \in BOOLEAN :
        \E a \in
            (IF training /\ agents[i].epsilon > 0
             THEN (IF ValidActions(ProbeSeq[k].mask) = {} THEN {-1}
                   ELSE ValidActions(ProbeSeq[k].mask))
             ELSE {})
            \cup
            (IF ~training \/ agents[i].epsilon < EPSILON_START
             THEN Exploit[agents[i].policy_net, agents[i].policy_training, k]
             ELSE {}) :
            selected' =
                [input |-> k,
                 actions |-> [j \in 1..2 |->
                    IF j = i THEN <<[action |-> a, training |-> training]>>
                    ELSE IF selected.input = k THEN selected.actions[j]
                    ELSE <<>>]]
    /\ UNCHANGED <<agents, artifact, memory>>
    /\ UNCHANGED <<routeVars, trainVars, apiVars, storeVars>>

\* DQNAgent.save, lines 383-401, called by the training service
AgentSave ==
    /\ artifact' = <<[policy_net_state_dict |-> agents[1].policy_net,
                      target_net_state_dict |-> agents[1].target_net,
                      epsilon |-> agents[1].epsilon,
                      episodes_done |-> agents[1].episodes_done,
                      steps_done |-> agents[1].steps_done,
                      config |-> [state_dim |-> StateDim, action_dim |-> ActionDim]]>>
    /\ UNCHANGED <<agents, memory, selected>>
    /\ UNCHANGED <<routeVars, trainVars, apiVars, storeVars>>

\* DQNAgent.load, lines 403-412, called by load_model on a new agent
AgentLoad ==
    /\ artifact # <<>>
    /\ agents' = [agents EXCEPT ![2] =
                    [@ EXCEPT !.policy_net = artifact[1].policy_net_state_dict,
                              !.target_net = artifact[1].target_net_state_dict,
                              !.epsilon = artifact[1].epsilon,
                              !.episodes_done = artifact[1].episodes_done,
                              !.steps_done = artifact[1].steps_done]]
    /\ selected' = [selected EXCEPT !.actions[2] = <<>>]
    /\ UNCHANGED <<artifact, memory>>
    /\ UNCHANGED <<routeVars, trainVars, apiVars, storeVars>>

AgentNext == AgentSelect \/ AgentSave \/ AgentLoad

\* two agents of one configuration: one is used and saved, the other loads
SpecAgent == AgentStart /\ [][AgentNext]_vars

\* ReplayBuffer.__init__, lines 98-99
BufferInit ==
    /\ RouteIdle /\ TrainIdle /\ ApiIdle /\ NoAgents /\ StoreIdle
    /\ \E c \in 1..MaxMemory : memory = [capacity |-> c, buffer |-> <<>>, pushed |-> 0]

\* ReplayBuffer.push, lines 101-114 (DQNAgent.store_transition, lines 360-370)
BufferPush ==
    /\ memory.pushed < MaxPushes
    /\ \E t \in TransitionSet :
        memory' = [memory EXCEPT !.buffer = DequeAppend(@, memory.capacity, t),
                                 !.pushed = @ + 1]
    /\ UNCHANGED <<agents, artifact, selected>>
    /\ UNCHANGED <<routeVars, trainVars, apiVars, storeVars>>

BufferNext == BufferPush

\* one replay buffer and the transitions pushed into it
SpecBuffer == BufferInit /\ [][BufferNext]_vars

(* --------------------------- table rl_models ---------------------------- *)
HTTP_NOT_FOUND == 404

\* the values of config.model_name and of the {name} path parameter explored
ModelNames == 1..MaxModels

\* INSERT ... VALUES (..., false, ...) ON CONFLICT (name) DO UPDATE SET ...:
\* a new row is inactive, a row of that name keeps its is_active
Upsert(table, name, episodes) ==
    IF \E r \in table : r.name = name
    THEN {IF r.name = name THEN [r EXCEPT !.trained_episodes = episodes] ELSE r : r \in table}
    ELSE table \cup {[name |-> name, is_active |-> FALSE, trained_episodes |-> episodes]}

\* UPDATE rl_models SET is_active = false
DeactivateAll(table) == {[r EXCEPT !.is_active = FALSE] : r \in table}

\* activate_model, lines 292-300: both UPDATE statements, then the commit
ActivateNamed(table, name) ==
    {IF r.name = name THEN [r EXCEPT !.is_active = TRUE] ELSE r
        : r \in DeactivateAll(table)}

\* DELETE FROM rl_models WHERE name = :name
DeleteNamed(table, name) == {r \in table : r.name # name}

Named(table, name) == {r \in table : r.name = name}

ActiveRows(table) == {r \in table : r.is_active}

\* save_training_result, lines 123-155, at the end of a training task
SaveTrainingResult ==
    /\ \E name \in ModelNames, n \in ApiEpisodeCounts :
        rl_models' = Upsert(rl_models, name, n)
    /\ response' = NoResponse
    /\ event' = "task"
    /\ UNCHANGED <<training_state, tasks, running, clock, stopped_runs>>
    /\ UNCHANGED <<routeVars, trainVars, agentVars>>

\* activate_model, lines 286-310, the UPDATE ... RETURNING id yields a row
ActivateModel ==
    /\ \E name \in ModelNames :
        /\ Named(rl_models, name) # {}
        /\ rl_models' = ActivateNamed(rl_models, name)
        /\ response' = [op |-> "activate", status |-> HTTP_OK, body |-> Some(name)]
    /\ event' = "activate"
    /\ UNCHANGED <<training_state, tasks, running, clock, stopped_runs>>
    /\ UNCHANGED <<routeVars, trainVars, agentVars>>

\* activate_model, lines 286-310, no row has the name: the commit of line 300
\* precedes the test of line 303
ActivateModelNotFound ==
    /\ \E name \in ModelNames :
        /\ Named(rl_models, name) = {}
        /\ rl_models' = ActivateNamed(rl_models, name)
        /\ response' = [op |-> "activate", status |-> HTTP_NOT_FOUND, body |-> Some(name)]
    /\ event' = "activate"
    /\ UNCHANGED <<training_state, tasks, running, clock, stopped_runs>>
    /\ UNCHANGED <<routeVars, trainVars, agentVars>>

\* delete_model, lines 313-331, the DELETE ... RETURNING yields a row
DeleteModel ==
    /\ \E name \in ModelNames :
        /\ Named(rl_models, name) # {}
        /\ rl_models' = DeleteNamed(rl_models, name)
        /\ response' = [op |-> "delete", status |-> HTTP_OK, body |-> Some(name)]
    /\ event' = "delete"
    /\ UNCHANGED <<training_state, tasks, running, clock, stopped_runs>>
    /\ UNCHANGED <<routeVars, trainVars, agentVars>>

\* delete_model, lines 313-331, no row has the name
DeleteModelNotFound ==
    /\ \E name \in ModelNames :
        /\ Named(rl_models, name) = {}
        /\ rl_models' = DeleteNamed(rl_models, name)
        /\ response' = [op |-> "delete", status |-> HTTP_NOT_FOUND, body |-> Some(name)]
    /\ event' = "delete"
    /\ UNCHANGED <<training_state, tasks, running, clock, stopped_runs>>
    /\ UNCHANGED <<routeVars, trainVars, agentVars>>

StoreNext ==
    \/ SaveTrainingResult
    \/ ActivateModel \/ ActivateModelNotFound
    \/ DeleteModel \/ DeleteModelNotFound

\* the table as created by the schema, before any model was trained
StoreInit == RouteIdle /\ TrainIdle /\ ApiIdle /\ AgentIdle /\ StoreIdle

\* training completions, activations and deletions in any order
SpecModels == StoreInit /\ [][StoreNext]_vars

(* ----------------------- claims on the environment --------------------- *)
AllRouteEntries ==
    UNION {{<<i, k>> : k \in DOMAIN vehicles[i].route} : i \in DOMAIN vehicles}

\* number of times customer index c occurs over the routes of all vehicles
Occurrences(c) ==
    Cardinality({e \in AllRouteEntries : vehicles[e[1]].route[e[2]] = c})

ResultEntries ==
    UNION {{<<i, k>> : k \in DOMAIN result.routes[i].points} : i \in DOMAIN result.routes}

ResultOccurrences(c) ==
    Cardinality({e \in ResultEntries : result.routes[e[1]].points[e[2]].customer_id = c})

\* C3: in every state of an episode, after reset and after any sequence of
\* steps with arbitrary actions, each vehicle's current load is between 0
\* and its capacity.
C3_LoadWithinCapacity ==
    env_ready =>
        \A i \in DOMAIN vehicles :
            vehicles[i].current_load >= 0 /\ vehicles[i].current_load <= vehicles[i].capacity

\* a vehicle is full after a step and a customer is still waiting
C3_Witness ==
    /\ env_ready /\ last.stepped
    /\ \E i \in DOMAIN vehicles :
        vehicles[i].current_load = vehicles[i].capacity /\ vehicles[i].route # <<>>
    /\ \E c \in DOMAIN customers : ~customers[c].visited

\* C4 (as claimed): in a returned result, the demands of the stops of any
\* one route sum to at most the capacity of the route's vehicle.
C4_RouteDemandWithinCapacity ==
    result.returned =>
        \A r \in DOMAIN result.routes :
            PointsDemand(result.routes[r].points)
                <= vehicles_data[result.routes[r].vehicle_id].capacity

\* C5: within an episode a visited flag is never cleared by a step, a node
\* index occurs at most once over the routes of all vehicles, and a customer
\* occurs at most once over the routes of a returned result.
C5_VisitedAtMostOnce ==
    /\ [](env_ready => \A c \in 0..(num_customers - 1) : Occurrences(c) <= 1)
    /\ [](result.returned => \A c \in 0..(num_customers - 1) : ResultOccurrences(c) <= 1)
    /\ [][(env_ready /\ last'.stepped) =>
            \A c \in DOMAIN customers : customers[c].visited => customers'[c].visited]_vars

\* a step has named a node that was already visited
C5_Witness == env_ready /\ last.stepped /\ last.branch = "visited"

\* C6: in a returned result, served plus unserved is the number of input
\* customers and served is the number of stops over all routes.
C6_ServedPlusUnserved ==
    result.returned =>
        /\ result.customers_served + result.customers_unserved = num_customers
        /\ result.customers_served = RouteStops(result.routes)

\* a result with both served and unserved customers
C6_Witness ==
    result.returned /\ result.customers_served > 0 /\ result.customers_unserved > 0

\* C7: the mask marks the depot-return action valid, and a customer action
\* valid exactly when the node is unvisited and fits the active vehicle.
C7_ActionMask ==
    env_ready =>
        /\ get_action_mask[num_customers] = 1
        /\ \A i \in 0..(num_customers - 1) :
            (get_action_mask[i] = 1) <=>
                (/\ ~customers[i + 1].visited
                 /\ vehicles[current_vehicle_idx + 1].current_load + customers[i + 1].demand
                        <= vehicles[current_vehicle_idx + 1].capacity)

\* one node is masked because it is visited, another because it does not fit
C7_Witness ==
    /\ env_ready /\ last.stepped
    /\ \E i, j \in DOMAIN customers :
        /\ customers[i].visited /\ ~customers[j].visited
        /\ get_action_mask[i - 1] = 0 /\ get_action_mask[j - 1] = 0

C9_DoneWithinBudget ==
    (env_ready /\ last.stepped) =>
        /\ last.truncated <=> (steps >= 3 * num_customers)
        /\ steps >= 3 * num_customers => done
        /\ mode = "rl" => steps <= 3 * num_customers

\* a rollout is cut by the budget with a customer left
C9_Witness ==
    /\ mode = "rl" /\ pc = "returned" /\ last.truncated /\ ~last.terminated
    /\ steps = 3 * num_customers

(* ---------------------- claims on TrainingService ---------------------- *)
TrainRunning == t_pc \in {"loop", "episode", "exit"}

\* C10: once the stop flag is set while train() runs, the episode in
\* progress runs to its end (the flag is not read inside an episode), no
\* further episode is started, and train() still does the final save and
\* returns its results.
C10_StopAtEpisodeBoundary ==
    /\ [][(t_pc = "episode" /\ t_pc' # "episode") =>
            (done /\ t_pc' = "loop" /\ Len(rewards_history') = Len(rewards_history) + 1)]_vars
    /\ [][(should_stop /\ TrainRunning) => episodes_started' = episodes_started]_vars
    /\ [](train_ret.returned =>
            /\ train_io.final_saves = 1
            /\ stopped_at.t_pc = "episode" =>
                (/\ Len(rewards_history) = stopped_at.episode + 1
                 /\ episodes_started = stopped_at.episode + 1))
    /\ (should_stop /\ TrainRunning) ~> (train_ret.returned /\ train_io.final_saves = 1)

\* stop() was called inside an episode and train() returned with episodes
\* left to run
C10_Witness ==
    /\ train_ret.returned /\ should_stop
    /\ stopped_at.t_pc = "episode"
    /\ Len(rewards_history) < config_episodes

(* --------------------- claims on the training routes ------------------- *)
\* run i has entered train() and train() has not returned
InTrain(i) == tasks[i].pc \in {"loop", "history"}

\* C1: across any interleaving of start requests, stop requests, status
\* queries and background tasks, at most one training run is executing at
\* any time
C1_AtMostOneRunExecuting == Cardinality({i \in DOMAIN tasks : InTrain(i)}) <= 1

C11_StoppedRunExecutesNoEpisode ==
    \A i \in DOMAIN tasks :
        stopped_runs[i] >= 0 => tasks[i].episode = stopped_runs[i]

(* ---------------------- claims on the training loop -------------------- *)
\* C12: during train() the progress callback is invoked exactly once for each
\* completed episode, never for an episode that did not complete, and with
\* the episode indices 1, 2, 3, ... in increasing order
C12_OneCallbackPerCompletedEpisode ==
    /\ [](/\ Len(callbacks) = Len(rewards_history)
          /\ \A k \in DOMAIN callbacks :
                callbacks[k].episode = k /\ callbacks[k].reward = rewards_history[k]
          /\ Len(callbacks) = IF t_pc = "episode" THEN episodes_started - 1
                              ELSE episodes_started)
    /\ [][\/ callbacks' = callbacks
          \/ /\ t_pc = "episode" /\ done /\ t_pc' = "loop"
             /\ Len(callbacks') = Len(callbacks) + 1
             /\ SubSeq(callbacks', 1, Len(callbacks)) = callbacks]_vars

\* train() returned after three completed episodes, each reported
C12_Witness ==
    /\ train_ret.returned
    /\ Len(callbacks) = 3
    /\ callbacks[3].episode = 3

(* ------------------------ claims on the fallbacks ---------------------- *)
\* C13: when the exact-solver strategy is requested and the solver library
\* is unavailable or finds no solution, the call returns what the
\* constructive heuristic returns for the same input, the road flag of the
\* request included: success, the heuristic's routes, distances and counts,
\* and metrics naming the heuristic
C13_ExactFallbackIsHeuristic ==
    (Strategy = "ortools" /\ pc = "returned" /\ result.method = "greedy") =>
        /\ result.success
        /\ result = GreedyResult(greedy)
        /\ \A k \in DOMAIN result.routes : result.routes[k].by_road = use_real_roads

\* C14: when the learned-policy strategy is requested and no trained policy
\* is loaded, the call returns the constructive heuristic's result for the
\* same input and runs no environment episode
C14_NoPolicyFallsBackToHeuristic ==
    (Strategy = "rl" /\ ~model_loaded
        /\ Accepted(entry, num_customers, num_vehicles)) =>
        /\ ~env_ready /\ steps = 0 /\ ~last.stepped
        /\ pc \in {"start", "greedy", "returned"}
        /\ pc = "returned" =>
            /\ result.success /\ result.method = "greedy"
            /\ result = GreedyResult(greedy)
            /\ \A k \in DOMAIN result.routes : result.routes[k].by_road = use_real_roads

\* the learned strategy without a policy returned the heuristic's routes for
\* three customers
C14_Witness ==
    /\ mode = "rl" /\ ~model_loaded /\ pc = "returned"
    /\ num_customers = 3
    /\ result.method = "greedy" /\ result.customers_served >= 2

\* an optimization call: one of the two routes or a method of the service
OptimizationCall == mode \in Modes \ {"episode"}

\* C15: an optimization call with zero customers returns success with zero
\* routes and zero total distance, and no strategy is invoked for it: the call
\* is answered before the dispatch, so it is never refused and never inside
\* a strategy
C15_ZeroCustomersSkipStrategy ==
    (OptimizationCall /\ num_customers = 0) =>
        /\ pc \in {"start", "returned"}
        /\ pc = "returned" =>
            /\ result.success /\ result.routes = <<>>
            /\ result.total_distance_km = 0
            /\ result.method = "none"

\* C16: an optimization call with an empty vehicle list is refused before
\* any strategy is invoked and never returns a success result
C16_NoVehiclesRejected ==
    (OptimizationCall /\ num_vehicles = 0) =>
        /\ pc \in {"start", "rejected_422", "rejected_400"}
        /\ ~result.success

\* position of customer idx in the list of unassigned customers
UnassignedPos(g, idx) == CHOOSE k \in DOMAIN g.unassigned : g.unassigned[k] = idx

\* the stop that the last iteration of the heuristic added to the open route
LastStop(g) == g.route_points[Len(g.route_points)].customer_id

\* C17: the constructive heuristic is deterministic: the customer it adds to
\* a route is the one fixed by the input alone, the feasible unassigned
\* customer of minimum distance from the current position and, among several
\* at that distance, the first in input order
C17_NearestFirstInInputOrder ==
    [][(pc = "greedy" /\ Len(greedy'.route_points) = Len(greedy.route_points) + 1) =>
        LET idx == LastStop(greedy')
        IN  /\ \E k \in DOMAIN greedy.unassigned : greedy.unassigned[k] = idx
            /\ Fits(greedy, idx)
            /\ greedy'.unassigned = SeqRemove(greedy.unassigned, idx)
            /\ \A k \in DOMAIN greedy.unassigned :
                  LET j == greedy.unassigned[k]
                  IN  Fits(greedy, j) =>
                        \/ GreedyDist(greedy, idx) < GreedyDist(greedy, j)
                        \/ /\ GreedyDist(greedy, idx) = GreedyDist(greedy, j)
                           /\ UnassignedPos(greedy, idx) <= k]_vars

\* two customers at different places, equally far from the depot and both
\* fitting the first vehicle: the first of the input was added first
C17_Witness ==
    /\ pc = "greedy" /\ greedy.vi = 1 /\ num_customers >= 2
    /\ Len(greedy.route_points) = 1 /\ LastStop(greedy) = 0
    /\ <<customers_data[1].lat, customers_data[1].lon>>
         # <<customers_data[2].lat, customers_data[2].lon>>
    /\ customers_data[2].demand <= vehicles_data[1].capacity
    /\ _haversine_distance(DepotData.lat, DepotData.lon,
                           customers_data[1].lat, customers_data[1].lon)
         = _haversine_distance(DepotData.lat, DepotData.lon,
                               customers_data[2].lat, customers_data[2].lon)

\* three customers of demand 1 and one vehicle of capacity 2: the spec's
\* example (demand 5, capacity 10) in the units of the model
ThreeForTwo ==
    /\ Strategy = "greedy" /\ num_customers = 3 /\ num_vehicles = 1
    /\ \A i \in DOMAIN customers_data : customers_data[i].demand = 1
    /\ vehicles_data[1].capacity = 2

\* C18: the heuristic adds customers to a vehicle's route until none fits:
\* when a route is closed no unassigned customer fits in the capacity the
\* vehicle has left; with three customers of equal demand and one vehicle of
\* twice that capacity the result serves two customers and leaves one unserved
C18_RouteClosesWhenNothingFits ==
    /\ []((ThreeForTwo /\ pc = "returned") =>
            /\ result.customers_served = 2 /\ result.customers_unserved = 1
            /\ Len(result.routes) = 1 /\ Len(result.routes[1].points) = 2)
    /\ [][(pc = "greedy" /\ greedy'.vi = greedy.vi + 1) =>
            \A k \in DOMAIN greedy.unassigned :
                greedy.current_load + customers_data[greedy.unassigned[k] + 1].demand
                    > vehicles_data[greedy.vi].capacity]_vars

\* the example has returned: two customers on the route, one left out
C18_Witness ==
    /\ ThreeForTwo /\ pc = "returned" /\ result.success
    /\ result.customers_served = 2 /\ result.customers_unserved = 1

\* both agents answered the latest input with exploration disabled
BothSelectedGreedy ==
    /\ selected.actions[1] # <<>> /\ ~selected.actions[1][1].training
    /\ selected.actions[2] # <<>> /\ ~selected.actions[2][1].training

\* agent 2 holds what agent 1 saved, and agent 1 still holds it
RoundTripped ==
    /\ artifact # <<>>
    /\ agents[1].policy_net = artifact[1].policy_net_state_dict
    /\ agents[2].policy_net = artifact[1].policy_net_state_dict

\* C19: after an agent is saved and the artifact is loaded into an agent of
\* the same configuration, the two agents select the same action, with
\* exploration disabled, on every decision state and mask
C19_RoundTripSelectsSameAction ==
    (RoundTripped /\ BothSelectedGreedy) =>
        selected.actions[1][1].action = selected.actions[2][1].action

\* C20: the experience buffer never holds more transitions than its
\* capacity; a push into a full buffer evicts exactly the oldest transition
\* and keeps the others in insertion order, a push into a buffer that is
\* not full only appends
C20_BufferBoundedEvictsOldest ==
    /\ [](Len(memory.buffer) <= memory.capacity)
    /\ [][memory'.pushed = memory.pushed + 1 =>
            LET old == memory.buffer
                new == memory'.buffer
            IN  /\ new # <<>> /\ new[Len(new)] \in TransitionSet
                /\ IF Len(old) = memory.capacity
                   THEN /\ Len(new) = Len(old)
                        /\ \A k \in 1..(Len(old) - 1) : new[k] = old[k + 1]
                   ELSE /\ Len(new) = Len(old) + 1
                        /\ \A k \in 1..Len(old) : new[k] = old[k]]_vars

\* more pushes than the capacity: the buffer is full of the latest two,
\* which differ
C20_Witness ==
    /\ memory.capacity = 2 /\ memory.pushed > memory.capacity
    /\ Len(memory.buffer) = 2 /\ memory.buffer[1] # memory.buffer[2]

(* -------------------- claims on the branches of step ------------------- *)
\* a step() call is being made: the step counter advances
Stepping == env_ready /\ steps' = steps + 1 /\ last'.stepped

\* the vehicle that is active when the step is called, before and after it
ActiveBefore == vehicles[current_vehicle_idx + 1]

ActiveAfter == vehicles'[current_vehicle_idx + 1]

SameVisited == \A c \in DOMAIN customers : customers'[c].visited = customers[c].visited

SameRoutes == \A i \in DOMAIN vehicles : vehicles'[i].route = vehicles[i].route

\* C23: a step with the depot-return action (action = N) moves the active
\* vehicle to the depot, adds the return distance to its accumulated
\* distance, resets its load to 0, leaves every visited flag and every route
\* unchanged and advances the active index from i to (i + 1) mod the number
\* of vehicles
C23_DepotReturn ==
    [][(Stepping /\ last'.action = num_customers) =>
        /\ last'.branch = "depot"
        /\ AtDepot(ActiveAfter, depot)
        /\ ActiveAfter.total_distance
              = ActiveBefore.total_distance + ReturnDistance(ActiveBefore, depot)
        /\ ActiveAfter.current_load = 0
        /\ SameVisited /\ SameRoutes
        /\ current_vehicle_idx' = (current_vehicle_idx + 1) % num_vehicles]_vars

\* the second of two vehicles came back loaded from a customer and the
\* index wrapped around to the first
C23_Witness ==
    /\ env_ready /\ last.stepped /\ last.branch = "depot"
    /\ num_vehicles = 2 /\ current_vehicle_idx = 0
    /\ vehicles[2].route # <<>> /\ vehicles[2].total_distance > 0
    /\ vehicles[2].current_load = 0 /\ AtDepot(vehicles[2], depot)

\* C24: a step whose action names an already-visited node, or lies outside
\* [0, N], yields the fixed penalty (the reward of the step when the episode
\* neither ends nor is cut by it) and mutates no routing state: visited
\* flags, every vehicle's position, load, route and accumulated distance,
\* and the active index are as before the step
C24_InvalidActionMutatesNothing ==
    [][(Stepping /\ last'.branch \in {"visited", "range"}) =>
        /\ (~last'.terminated /\ ~last'.truncated) => last'.reward = 0 - INVALID_PENALTY
        /\ customers' = customers
        /\ vehicles' = vehicles
        /\ current_vehicle_idx' = current_vehicle_idx]_vars

\* C25: a step whose action names an unvisited node that does not fit the
\* active vehicle does not visit the node (it stays unvisited and enters no
\* route) and forces the vehicle back to the depot: position depot, load 0,
\* return distance added to its accumulated distance
C25_OverflowForcesReturn ==
    [][(/\ Stepping
        /\ last'.action \in 0..(num_customers - 1)
        /\ ~customers[last'.action + 1].visited
        /\ ActiveBefore.current_load + customers[last'.action + 1].demand
              > ActiveBefore.capacity) =>
        /\ last'.branch = "overflow"
        /\ ~customers'[last'.action + 1].visited
        /\ SameVisited /\ SameRoutes
        /\ AtDepot(ActiveAfter, depot)
        /\ ActiveAfter.current_load = 0
        /\ ActiveAfter.total_distance
              = ActiveBefore.total_distance + ReturnDistance(ActiveBefore, depot)]_vars

\* a loaded vehicle away from the depot was sent back by a node that did
\* not fit, and the node is still unvisited
C25_Witness ==
    /\ env_ready /\ last.stepped /\ last.branch = "overflow"
    /\ ~customers[last.action + 1].visited
    /\ vehicles[current_vehicle_idx + 1].route # <<>>
    /\ vehicles[current_vehicle_idx + 1].current_load = 0
    /\ AtDepot(vehicles[current_vehicle_idx + 1], depot)
    /\ vehicles[current_vehicle_idx + 1].total_distance > 0

\* C26: on the step after which all nodes are visited the episode is
\* reported terminated and every vehicle not at the depot is returned to
\* it: its return distance is added to its accumulated distance and its
\* position is the depot when the episode ends
C26_ClosingReturn ==
    /\ []((env_ready /\ last.stepped) =>
            /\ last.terminated <=> (\A c \in DOMAIN customers : customers[c].visited)
            /\ last.terminated => \A i \in DOMAIN vehicles : AtDepot(vehicles[i], depot))
    /\ [][(Stepping /\ last'.branch = "visit" /\ last'.terminated) =>
            \A i \in DOMAIN vehicles :
                i # current_vehicle_idx + 1 =>
                    vehicles'[i].total_distance
                        = vehicles[i].total_distance + ReturnDistance(vehicles[i], depot)]_vars

(* ------------------- claims on the results of train() ------------------ *)
\* C27: the episodes_trained value returned by train() is the number of
\* episodes that ran to completion (the number of progress notifications
\* issued), when the loop runs all configured episodes and when the stop
\* flag ends it early
C27_EpisodesTrainedCountsCompleted ==
    train_ret.returned =>
        /\ train_ret.episodes_trained = Len(callbacks)
        /\ train_ret.episodes_trained = Len(rewards_history)

\* C28: in every route of every strategy's result, total_demand is the sum
\* of the demands of the stops listed in the route
C28_TotalDemandIsSumOfStops ==
    result.returned =>
        \A r \in DOMAIN result.routes :
            result.routes[r].total_demand = PointsDemand(result.routes[r].points)

\* C29: in an episode whose every action is chosen by select_action with
\* the environment's current action mask (the rollout of the learned
\* strategy, the training loop), the chosen action is one the mask marked
\* valid, so step never takes the already-visited, capacity-overflow or
\* out-of-range branch
C29_MaskedActionsAreValid ==
    /\ []((mode \in {"rl", "train"} /\ last.stepped) => last.branch \in {"depot", "visit"})
    /\ [][(mode \in {"rl", "train"} /\ env_ready /\ steps' = steps + 1) =>
            get_action_mask[last'.action] = 1]_vars

\* the rollout stepped while the mask excluded a visited node and an
\* unvisited node that does not fit the active vehicle
C29_Witness ==
    /\ mode = "rl" /\ pc = "rollout" /\ last.stepped
    /\ \E i, j \in DOMAIN customers :
        /\ customers[i].visited /\ get_action_mask[i - 1] = 0
        /\ ~customers[j].visited /\ get_action_mask[j - 1] = 0

(* --------------------- claims on the training status ------------------- *)
\* the run accepted last
CurrentRun == tasks[Len(tasks)]

\* C30: the best_reward reported by the training status during a run is
\* the maximum episode reward of that run only: once a new run is accepted,
\* no status query reports a best_reward, current reward, average reward or
\* epsilon left over from an earlier run
C30_StatusReportsCurrentRunOnly ==
    (response.op = "status" /\ tasks # <<>>) =>
        LET body == response.body[1]
        IN  IF CurrentRun.rewards_seen = {}
            THEN /\ body.best_reward = None /\ body.current_reward = None
                 /\ body.avg_reward_last_100 = None
                 /\ body.epsilon = STATE_EPSILON
            ELSE /\ body.best_reward = Some(SetMax(CurrentRun.rewards_seen))
                 /\ body.current_reward # None
                 /\ body.current_reward[1] \in CurrentRun.rewards_seen
                 /\ body.epsilon = CurrentRun.epsilon

(* ---------------------- claims on the default method ------------------- *)
\* C22: when an optimization request names no strategy, the constructive
\* heuristic is the strategy used: it is the method the request is
\* dispatched to, and the method the response reports
C22_DefaultStrategyIsHeuristic ==
    (OptimizationCall /\ ~method_given /\ pc \notin {"start", "rejected_422", "rejected_400"}) =>
        /\ Strategy = "greedy"
        /\ method_used = "greedy"

(* --------------------- claims on table rl_models ------------------------ *)
OneActive(table) == Cardinality(ActiveRows(table)) = 1

\* C21: an activation, a deletion or a training completion on a table that
\* holds exactly one active row and is non-empty afterwards leaves exactly
\* one row marked active
C21_ExactlyOneActive ==
    [][(OneActive(rl_models) /\ rl_models' # {}) => OneActive(rl_models')]_vars

====
